---- MODULE Spec2Model ----
(***************************************************************************)
(* HybridAI (src/hybrid_ai/hybrid_ai.py): a SQLite-backed memory store     *)
(* with a TF-IDF local lookup, an online fallback with write-back, PDF     *)
(* ingestion and deletion.                                                 *)
(*                                                                         *)
(* A Python str is modelled as a sequence of one-character strings, so     *)
(* that strip, split, basename, join and the vectorizer's tokenizer are    *)
(* computed character by character.                                        *)
(***************************************************************************)
EXTENDS Integers, Sequences, FiniteSets, TLC

VARIABLES memory, pdf_files, tts_enabled, last, issued, owned

vars == <<memory, pdf_files, tts_enabled, last, issued, owned>>

(***************************************************************************)
(* Bounds of the exploration.                                              *)
(***************************************************************************)
MaxRows == 2
MaxDocs == 2
MaxId == MaxRows + 1

(***************************************************************************)
(* Python str helpers.                                                     *)
(***************************************************************************)
Whitespace == {" ", "\n", "\t"}

LowerOf == [c \in {"C", "D"} |-> IF c = "C" THEN "c" ELSE "d"]

lower_char(c) == IF c \in DOMAIN LowerOf THEN LowerOf[c] ELSE c

\* str.lower()
RECURSIVE lower(_)
lower(s) == IF s = <<>> THEN <<>> ELSE <<lower_char(Head(s))>> \o lower(Tail(s))

\* \w of the vectorizer's token pattern: letters, digits and underscore.
WordChars ==
    {"a", "c", "d", "g", "i", "n", "o", "p", "t", "x", "y", "C", "D", "_", "1"}

RECURSIVE lstrip(_)
lstrip(s) ==
    IF s # <<>> /\ Head(s) \in Whitespace THEN lstrip(Tail(s)) ELSE s

RECURSIVE rstrip(_)
rstrip(s) ==
    IF s # <<>> /\ s[Len(s)] \in Whitespace
    THEN rstrip(SubSeq(s, 1, Len(s) - 1))
    ELSE s

\* str.strip()
strip(s) == rstrip(lstrip(s))

\* str.split(sep) for a one-character separator: always at least one piece.
RECURSIVE split_from(_, _, _)
split_from(s, sep, cur) ==
    IF s = <<>> THEN <<cur>>
    ELSE IF Head(s) = sep THEN <<cur>> \o split_from(Tail(s), sep, <<>>)
    ELSE split_from(Tail(s), sep, Append(cur, Head(s)))

split(s, sep) == split_from(s, sep, <<>>)

\* " ".join(parts)
RECURSIVE join(_)
join(parts) ==
    IF parts = <<>> THEN <<>>
    ELSE IF Len(parts) = 1 THEN parts[1]
    ELSE parts[1] \o <<" ">> \o join(Tail(parts))

\* os.path.basename(path): what follows the last "/".
basename(path) == split(path, "/")[Len(split(path, "/"))]

\* None and a raised exception are kept apart from every str, which holds
\* one-character elements only.
None == <<"None">>
Error == <<"Error">>
ValueError == <<"ValueError">>

\* Python truthiness of a str or None.
truthy(x) == x # None /\ x # <<>>

(***************************************************************************)
(* TfidfVectorizer().fit_transform and cosine_similarity (lines 64-65).    *)
(***************************************************************************)
\* token_pattern (?u)\b\w\w+\b on the lowercased text: the maximal runs of
\* word characters that are at least two characters long.
RECURSIVE runs_from(_, _)
runs_from(s, cur) ==
    IF s = <<>> THEN (IF Len(cur) >= 2 THEN <<cur>> ELSE <<>>)
    ELSE IF Head(s) \in WordChars THEN runs_from(Tail(s), Append(cur, Head(s)))
    ELSE (IF Len(cur) >= 2 THEN <<cur>> ELSE <<>>) \o runs_from(Tail(s), <<>>)

tokenize(s) == runs_from(lower(s), <<>>)

Range(f) == {f[i] : i \in DOMAIN f}

\* term frequency of token t in the token sequence toks
tf(toks, t) == Cardinality({i \in DOMAIN toks : toks[i] = t})

\* 1000 * ln(k) for k = 1..12, rounded
LnMilli == <<0, 693, 1099, 1386, 1609, 1792, 1946, 2079, 2197, 2303, 2398, 2485>>

\* smooth idf: ln((1 + n) / (1 + df)) + 1, in thousandths
idf(n, df) == LnMilli[1 + n] - LnMilli[1 + df] + 1000

RECURSIVE SumOver(_, _)
SumOver(S, f) ==
    IF S = {} THEN 0
    ELSE LET x == CHOOSE y \in S : TRUE IN f[x] + SumOver(S \ {x}, f)

\* floor of the square root, by bisection
RECURSIVE isqrt_between(_, _, _)
isqrt_between(x, lo, hi) ==
    IF lo >= hi THEN lo
    ELSE LET mid == (lo + hi + 1) \div 2
         IN IF mid * mid <= x THEN isqrt_between(x, mid, hi)
            ELSE isqrt_between(x, lo, mid - 1)

isqrt(x) == isqrt_between(x, 0, 46340)

\* fit_transform raises ValueError("empty vocabulary ...") when no document
\* holds a token.
empty_vocabulary(docs) == \A i \in DOMAIN docs : tokenize(docs[i]) = <<>>

\* document frequency of token t among the token sequences toks
doc_freq(toks, t) == Cardinality({i \in DOMAIN toks : t \in Range(toks[i])})

\* tf * idf of token t in document i, in thousandths
weight(toks, i, t) == tf(toks[i], t) * idf(Len(toks), doc_freq(toks, t))

\* inner product of the tf-idf rows i and j
dot(toks, i, j) ==
    LET common == Range(toks[i]) \cap Range(toks[j])
    IN SumOver(common, [t \in common |-> weight(toks, i, t) * weight(toks, j, t)])

\* L2 norm of the tf-idf row i
norm(toks, i) == isqrt(dot(toks, i, i))

\* cosine of rows i and j in ten-thousandths; a row without tokens is the
\* zero vector, whose cosine to anything is 0
cosine(d, ni, nj) ==
    IF ni = 0 \/ nj = 0 THEN 0
    ELSE ((d \div nj) * 10000 + ((d % nj) * 10000) \div nj) \div ni

RECURSIVE tokenize_all(_)
tokenize_all(docs) ==
    IF docs = <<>> THEN <<>>
    ELSE <<tokenize(Head(docs))>> \o tokenize_all(Tail(docs))

RECURSIVE cosine_rows(_, _, _)
cosine_rows(toks, i, nq) ==
    IF i >= Len(toks) THEN <<>>
    ELSE <<cosine(dot(toks, i, Len(toks)), norm(toks, i), nq)>>
         \o cosine_rows(toks, i + 1, nq)

\* The cosine similarities of the last document (the query) to each of the
\* others, in ten-thousandths.
cosine_sim(docs) ==
    LET toks == tokenize_all(docs)
    IN cosine_rows(toks, 1, norm(toks, Len(toks)))

\* numpy argmax: the first index holding the maximum
RECURSIVE argmax_from(_, _, _)
argmax_from(v, i, best) ==
    IF i > Len(v) THEN best
    ELSE argmax_from(v, i + 1, IF v[i] > v[best] THEN i ELSE best)

argmax(v) == argmax_from(v, 2, 1)

\* 0.2, in ten-thousandths
Threshold == 2000

(***************************************************************************)
(* Text literals used as inputs.                                           *)
(***************************************************************************)
USER == <<"u", "s", "e", "r">>
ONLINE == <<"o", "n", "l", "i", "n", "e">>
PDF_PREFIX == <<"p", "d", "f", ":">>
\* the sentinel of line 118
NOT_FOUND == <<"Sorry, I couldn't find an answer.">>

s_empty == <<>>
s_i == <<"i">>
s_Cat == <<"C", "a", "t">>
s_nap == <<"n", "a", "p">>
s_Dog == <<"D", "o", "g">>
s_Dog_nap == <<"D", "o", "g", " ", "n", "a", "p">>

SayTexts == {s_empty, s_Dog_nap}
Queries == {s_Dog, s_i}

\* What DDGS().text does within search_online: it raises, or yields the
\* list of result dicts.
AdapterOutcomes ==
    { [raises |-> TRUE, results |-> <<>>],
      [raises |-> FALSE, results |-> <<>>],
      [raises |-> FALSE, results |-> << [body |-> s_empty, title |-> s_empty] >>],
      [raises |-> FALSE, results |-> << [body |-> s_Cat, title |-> s_i],
                                        [body |-> None, title |-> s_nap] >>] }

\* What the file system and pdfplumber give for a path: whether it exists,
\* and the outcome of extract_text page by page (a str, None, or Error
\* when extraction raises).
p_a_x == <<"a", "/", "x">>
p_d_x == <<"d", "/", "x">>
p_y == <<"y">>
page_cat_dog == <<"c", "a", "t", "\n", "\n", " ", "D", "o", "g", " ">>
page_cat == <<"c", "a", "t">>
page_blank == <<" ", "\n">>

Documents ==
    { [path |-> p_a_x, exists |-> TRUE, pages |-> <<page_cat_dog, s_empty>>],
      [path |-> p_d_x, exists |-> TRUE, pages |-> <<page_cat>>],
      [path |-> p_y, exists |-> TRUE, pages |-> <<s_Dog>>],
      [path |-> p_y, exists |-> TRUE, pages |-> <<None, page_blank>>],
      [path |-> p_y, exists |-> FALSE, pages |-> <<>>],
      [path |-> p_a_x, exists |-> TRUE, pages |-> <<page_cat, Error>>] }

(***************************************************************************)
(* The two tables (lines 35-43).  A table is the sequence of its rows in   *)
(* the order of their insertion.  A SELECT without ORDER BY scans a table  *)
(* in rowid order, which is the same order as long as every new rowid is   *)
(* larger than the rowids in the table.                                    *)
(***************************************************************************)
RECURSIVE max_id(_)
max_id(rows) ==
    IF rows = <<>> THEN 0
    ELSE LET m == max_id(Tail(rows))
         IN IF Head(rows).id > m THEN Head(rows).id ELSE m

\* A rowid assignment that fills the first gap: the smallest positive id
\* not in the table.
next_rowid_first_free(rows) ==
    CHOOSE i \in 1..(Len(rows) + 1) :
        /\ i \notin {rows[k].id : k \in DOMAIN rows}
        /\ \A j \in 1..(i - 1) : j \in {rows[k].id : k \in DOMAIN rows}

\* INTEGER PRIMARY KEY without AUTOINCREMENT: one more than the largest
\* rowid currently in the table.
next_rowid(rows) == max_id(rows) + 1

ids_of(rows) == {rows[i].id : i \in DOMAIN rows}

_save_memory(mem, source, content) ==
    Append(mem, [id |-> next_rowid(mem), source |-> source, content |-> content])

_load_all_memory(mem) == [i \in DOMAIN mem |-> mem[i].content]

\* The lookup answering a hit with the query itself.
_search_local_memory_echo(mem, query) ==
    LET memories == _load_all_memory(mem)
    IN IF memories = <<>> THEN None
       ELSE IF empty_vocabulary(Append(memories, query)) THEN ValueError
       ELSE LET cosine_sims == cosine_sim(Append(memories, query))
                top_index == argmax(cosine_sims)
            IN IF cosine_sims[top_index] > Threshold
               THEN query
               ELSE None

_search_local_memory(mem, query) ==
    LET memories == _load_all_memory(mem)
    IN IF memories = <<>> THEN None
       ELSE IF empty_vocabulary(Append(memories, query)) THEN ValueError
       ELSE LET cosine_sims == cosine_sim(Append(memories, query))
                top_index == argmax(cosine_sims)
            IN IF cosine_sims[top_index] > Threshold
               THEN memories[top_index]
               ELSE None

\* The rows of a table as a scan in rowid order yields them.
RECURSIVE by_rowid(_)
by_rowid(rows) ==
    IF rows = <<>> THEN <<>>
    ELSE LET first == CHOOSE i \in DOMAIN rows :
                          \A j \in DOMAIN rows : rows[i].id <= rows[j].id
         IN <<rows[first]>>
            \o by_rowid(SelectSeq(rows, LAMBDA r : r.id # rows[first].id))

\* list_memory (lines 124-130): the (id, source, content) tuples.
list_memory(mem) ==
    LET rows == by_rowid(mem)
    IN [i \in DOMAIN rows |-> <<rows[i].id, rows[i].source, rows[i].content>>]

\* list_pdfs (lines 140-146): the (id, filename) tuples.
list_pdfs(pdfs) ==
    LET rows == by_rowid(pdfs)
    IN [i \in DOMAIN rows |-> <<rows[i].id, rows[i].filename>>]

_save_pdf_record(pdfs, pdf_path) ==
    Append(pdfs, [id |-> next_rowid(pdfs), filename |-> basename(pdf_path)])

\* search_online (lines 98-106): the snippets joined by a blank, None when
\* there is no result or the provider raised.
RECURSIVE snippets(_)
snippets(results) ==
    IF results = <<>> THEN <<>>
    ELSE <<(IF truthy(Head(results).body) THEN Head(results).body
            ELSE Head(results).title)>> \o snippets(Tail(results))

search_online(outcome) ==
    IF outcome.raises THEN None
    ELSE IF outcome.results # <<>> THEN join(snippets(outcome.results))
    ELSE None

(***************************************************************************)
(* State after construction: both tables empty (a fresh database file),    *)
(* speech output off.                                                      *)
(***************************************************************************)
Init ==
    /\ memory = <<>>
    /\ pdf_files = <<>>
    /\ tts_enabled = FALSE
    /\ last = [op |-> "init"]
    /\ issued = 0
    /\ owned = <<>>

\* say (lines 120-122)
say(text) ==
    /\ Len(memory) < MaxRows
    /\ next_rowid(memory) <= MaxId
    /\ memory' = _save_memory(memory, USER, text)
    /\ last' = [op |-> "say", arg |-> text, out |-> "return",
                value |-> <<"Noted and stored in memory.">>]
    /\ UNCHANGED <<pdf_files, tts_enabled>>

\* forget deleting every row up to the given id.
forget_through(memory_id) ==
    /\ memory' = SelectSeq(memory, LAMBDA row : row.id > memory_id)
    /\ last' = [op |-> "forget", arg |-> memory_id, out |-> "return",
                value |-> <<"Deleted memory with ID", memory_id>>]
    /\ UNCHANGED <<pdf_files, tts_enabled>>

\* forget (lines 132-138)
forget(memory_id) ==
    /\ memory' = SelectSeq(memory, LAMBDA row : row.id # memory_id)
    /\ last' = [op |-> "forget", arg |-> memory_id, out |-> "return",
                value |-> <<"Deleted memory with ID", memory_id>>]
    /\ UNCHANGED <<pdf_files, tts_enabled>>

\* toggle_tts (lines 148-150)
toggle_tts(enable) ==
    /\ tts_enabled' = enable
    /\ last' = [op |-> "toggle_tts", arg |-> enable, out |-> "return",
                value |-> IF enable THEN <<"TTS enabled.">> ELSE <<"TTS disabled.">>]
    /\ UNCHANGED <<memory, pdf_files>>

\* _speak (lines 152-155): the calls made on the speech engine, and whether
\* the engine raised.
_speak(text, sink_fails) ==
    [calls |-> IF tts_enabled THEN <<"engine.say">> ELSE <<>>,
     raises |-> tts_enabled /\ sink_fails]

\* ask's body with the local answer stored again on a hit, and the sentinel
\* spoken.
ask_from_writing_back(query, local_answer, outcome, sink_fails) ==
    LET online_answer == search_online(outcome)
        adapter == IF outcome.raises THEN "raised" ELSE "returned"
    IN
    IF local_answer = ValueError THEN
        /\ last' = [op |-> "ask", arg |-> query, out |-> "raise",
                    value |-> ValueError, adapter |-> "unused",
                    events |-> <<"_search_local_memory">>]
        /\ UNCHANGED <<memory, pdf_files, tts_enabled>>
    ELSE IF truthy(local_answer) \/ truthy(online_answer) THEN
        LET answer == IF truthy(local_answer) THEN local_answer ELSE online_answer
        IN /\ Len(memory) < MaxRows
           /\ next_rowid(memory) <= MaxId
           /\ memory' = _save_memory(memory, ONLINE, answer)
           /\ last' = [op |-> "ask", arg |-> query, out |-> "return",
                       value |-> answer,
                       adapter |-> IF truthy(local_answer) THEN "unused" ELSE adapter,
                       events |-> <<"_search_local_memory", "_save_memory", "_speak">>]
           /\ UNCHANGED <<pdf_files, tts_enabled>>
    ELSE
        /\ last' = [op |-> "ask", arg |-> query, out |-> "return",
                    value |-> NOT_FOUND, adapter |-> adapter,
                    events |-> <<"_search_local_memory", "search_online", "_speak">>]
        /\ UNCHANGED <<memory, pdf_files, tts_enabled>>

\* The body of ask (lines 110-118) once line 109 has bound local_answer.
\* outcome is what the search provider does when it is called, sink_fails
\* whether the speech engine raises when it is called.
ask_from(query, local_answer, outcome, sink_fails) ==
    LET online_answer == search_online(outcome)
        adapter == IF outcome.raises THEN "raised" ELSE "returned"
    IN
    IF local_answer = ValueError THEN
        /\ last' = [op |-> "ask", arg |-> query, out |-> "raise",
                    value |-> ValueError, adapter |-> "unused",
                    events |-> <<"_search_local_memory">>]
        /\ UNCHANGED <<memory, pdf_files, tts_enabled>>
    ELSE IF truthy(local_answer) THEN
        LET spoken == _speak(local_answer, sink_fails)
        IN /\ last' = [op |-> "ask", arg |-> query,
                       out |-> IF spoken.raises THEN "raise" ELSE "return",
                       value |-> IF spoken.raises THEN Error ELSE local_answer,
                       adapter |-> "unused",
                       events |-> <<"_search_local_memory", "_speak">> \o spoken.calls]
           /\ UNCHANGED <<memory, pdf_files, tts_enabled>>
    ELSE IF truthy(online_answer) THEN
        LET spoken == _speak(online_answer, sink_fails)
        IN /\ Len(memory) < MaxRows
           /\ next_rowid(memory) <= MaxId
           /\ memory' = _save_memory(memory, ONLINE, online_answer)
           /\ last' = [op |-> "ask", arg |-> query,
                       out |-> IF spoken.raises THEN "raise" ELSE "return",
                       value |-> IF spoken.raises THEN Error ELSE online_answer,
                       adapter |-> adapter,
                       events |-> <<"_search_local_memory", "search_online",
                                    "_save_memory", "_speak">> \o spoken.calls]
           /\ UNCHANGED <<pdf_files, tts_enabled>>
    ELSE
        /\ last' = [op |-> "ask", arg |-> query, out |-> "return",
                    value |-> NOT_FOUND, adapter |-> adapter,
                    events |-> <<"_search_local_memory", "search_online">>]
        /\ UNCHANGED <<memory, pdf_files, tts_enabled>>

\* ask (lines 108-118): the provider and the speech engine answer as they
\* please.
ask(query) ==
    \E local_answer \in {_search_local_memory(memory, query)} :
        \E outcome \in AdapterOutcomes, sink_fails \in BOOLEAN :
            ask_from(query, local_answer, outcome, sink_fails)

\* The chunks of ingest_pdf's loop (lines 74-85): Error when extract_text
\* raises on a page, otherwise the stripped non-empty lines in page order.
\* The lines of a page kept as extracted, without trimming.
RECURSIVE lines_of_untrimmed(_)
lines_of_untrimmed(pieces) ==
    IF pieces = <<>> THEN <<>>
    ELSE (IF truthy(strip(Head(pieces))) THEN <<Head(pieces)>> ELSE <<>>)
         \o lines_of_untrimmed(Tail(pieces))

RECURSIVE lines_of(_)
lines_of(pieces) ==
    IF pieces = <<>> THEN <<>>
    ELSE (IF truthy(strip(Head(pieces))) THEN <<strip(Head(pieces))>> ELSE <<>>)
         \o lines_of(Tail(pieces))

\* The extraction loop keeping the chunks read before a page fails.
RECURSIVE text_chunks_partial(_)
text_chunks_partial(pages) ==
    IF pages = <<>> THEN <<>>
    ELSE IF Head(pages) = Error THEN <<>>
    ELSE (IF truthy(Head(pages)) THEN lines_of(split(Head(pages), "\n"))
          ELSE <<>>) \o text_chunks_partial(Tail(pages))

RECURSIVE text_chunks(_)
text_chunks(pages) ==
    IF pages = <<>> THEN <<>>
    ELSE IF Head(pages) = Error THEN Error
    ELSE LET rest == text_chunks(Tail(pages))
         IN IF rest = Error THEN Error
            ELSE (IF truthy(Head(pages)) THEN lines_of(split(Head(pages), "\n"))
                  ELSE <<>>) \o rest

\* the loop of lines 86-87
RECURSIVE save_chunks(_, _, _)
save_chunks(mem, source, chunks) ==
    IF chunks = <<>> THEN mem
    ELSE save_chunks(_save_memory(mem, source, Head(chunks)), source, Tail(chunks))

\* ingest_pdf (lines 71-89)
ingest_pdf(doc) ==
    LET chunks == text_chunks(doc.pages)
        source == PDF_PREFIX \o basename(doc.path)
    IN
    IF ~doc.exists THEN
        /\ last' = [op |-> "ingest_pdf", arg |-> doc, out |-> "return",
                    value |-> <<"PDF file not found.">>]
        /\ UNCHANGED <<memory, pdf_files, tts_enabled>>
    ELSE IF chunks = Error THEN
        /\ last' = [op |-> "ingest_pdf", arg |-> doc, out |-> "return",
                    value |-> <<"Error reading PDF">>]
        /\ UNCHANGED <<memory, pdf_files, tts_enabled>>
    ELSE
        /\ Len(memory) + Len(chunks) <= MaxRows
        /\ max_id(memory) + Len(chunks) <= MaxId
        /\ Len(pdf_files) < MaxDocs
        /\ next_rowid(pdf_files) <= MaxDocs
        /\ memory' = save_chunks(memory, source, chunks)
        /\ pdf_files' = _save_pdf_record(pdf_files, doc.path)
        /\ last' = [op |-> "ingest_pdf", arg |-> doc, out |-> "return",
                    value |-> <<"Ingested", Len(chunks)>>]
        /\ UNCHANGED tts_enabled

\* forget_pdf with the memories matched by the "pdf:" prefix alone.
forget_pdf_by_prefix(pdf_id) ==
    LET rows == SelectSeq(pdf_files, LAMBDA r : r.id = pdf_id)
    IN
    IF rows = <<>> THEN
        /\ last' = [op |-> "forget_pdf", arg |-> pdf_id, out |-> "return",
                    value |-> <<"No PDF found with ID", pdf_id>>]
        /\ UNCHANGED <<memory, pdf_files, tts_enabled>>
    ELSE
        /\ memory' = SelectSeq(memory,
                        LAMBDA m : Len(m.source) < Len(PDF_PREFIX)
                                   \/ SubSeq(m.source, 1, Len(PDF_PREFIX)) # PDF_PREFIX)
        /\ pdf_files' = SelectSeq(pdf_files, LAMBDA r : r.id # pdf_id)
        /\ last' = [op |-> "forget_pdf", arg |-> pdf_id, out |-> "return",
                    value |-> <<"Forgot PDF", rows[1].filename>>]
        /\ UNCHANGED tts_enabled

\* forget_pdf without the check of lines 17-19: row[0] raises on None.
forget_pdf_unchecked(pdf_id) ==
    LET rows == SelectSeq(pdf_files, LAMBDA r : r.id = pdf_id)
    IN
    IF rows = <<>> THEN
        /\ last' = [op |-> "forget_pdf", arg |-> pdf_id, out |-> "raise",
                    value |-> Error]
        /\ UNCHANGED <<memory, pdf_files, tts_enabled>>
    ELSE
        /\ memory' = SelectSeq(memory,
                        LAMBDA m : m.source # PDF_PREFIX \o rows[1].filename)
        /\ pdf_files' = SelectSeq(pdf_files, LAMBDA r : r.id # pdf_id)
        /\ last' = [op |-> "forget_pdf", arg |-> pdf_id, out |-> "return",
                    value |-> <<"Forgot PDF", rows[1].filename>>]
        /\ UNCHANGED tts_enabled

\* forget_pdf deleting the record and leaving its memories.
forget_pdf_record_only(pdf_id) ==
    LET rows == SelectSeq(pdf_files, LAMBDA r : r.id = pdf_id)
    IN
    IF rows = <<>> THEN
        /\ last' = [op |-> "forget_pdf", arg |-> pdf_id, out |-> "return",
                    value |-> <<"No PDF found with ID", pdf_id>>]
        /\ UNCHANGED <<memory, pdf_files, tts_enabled>>
    ELSE
        /\ pdf_files' = SelectSeq(pdf_files, LAMBDA r : r.id # pdf_id)
        /\ last' = [op |-> "forget_pdf", arg |-> pdf_id, out |-> "return",
                    value |-> <<"Forgot PDF", rows[1].filename>>]
        /\ UNCHANGED <<memory, tts_enabled>>

\* forget_pdf (lines 11-27)
forget_pdf(pdf_id) ==
    LET rows == SelectSeq(pdf_files, LAMBDA r : r.id = pdf_id)
    IN
    IF rows = <<>> THEN
        /\ last' = [op |-> "forget_pdf", arg |-> pdf_id, out |-> "return",
                    value |-> <<"No PDF found with ID", pdf_id>>]
        /\ UNCHANGED <<memory, pdf_files, tts_enabled>>
    ELSE
        LET filename == rows[1].filename
        IN /\ memory' = SelectSeq(memory,
                            LAMBDA m : m.source # PDF_PREFIX \o filename)
           /\ pdf_files' = SelectSeq(pdf_files, LAMBDA r : r.id # pdf_id)
           /\ last' = [op |-> "forget_pdf", arg |-> pdf_id, out |-> "return",
                       value |-> <<"Forgot PDF", filename>>]
           /\ UNCHANGED tts_enabled

(***************************************************************************)
(* History of a run, kept beside the program's state for the properties    *)
(* that speak of earlier inserts:                                          *)
(*   issued    the largest id any insert into memory has been given;       *)
(*   owned[d]  for document record d, the number n of chunks its           *)
(*             ingestion stored and the ids of those still in the table.   *)
(***************************************************************************)
History ==
    /\ issued' = IF max_id(memory') > issued THEN max_id(memory') ELSE issued
    /\ owned' = [d \in ids_of(pdf_files') |->
                    IF d \in ids_of(pdf_files)
                    THEN [owned[d] EXCEPT !.ids = @ \cap ids_of(memory')]
                    ELSE [n |-> Len(memory') - Len(memory),
                          ids |-> ids_of(memory') \ ids_of(memory)]]

\* The program as any caller of the class may drive it, with the history
\* left out of account.
Next ==
    \/ \E text \in SayTexts : say(text) /\ UNCHANGED <<issued, owned>>
    \/ \E query \in Queries : ask(query) /\ UNCHANGED <<issued, owned>>
    \/ \E doc \in Documents : ingest_pdf(doc) /\ UNCHANGED <<issued, owned>>
    \/ \E memory_id \in 1..MaxId : forget(memory_id) /\ UNCHANGED <<issued, owned>>
    \/ \E pdf_id \in 1..MaxDocs : forget_pdf(pdf_id) /\ UNCHANGED <<issued, owned>>
    \/ \E enable \in BOOLEAN : toggle_tts(enable) /\ UNCHANGED <<issued, owned>>

Spec == Init /\ [][Next]_vars

\* The program, with its history recorded.
NextHistory ==
    \/ \E text \in SayTexts : say(text) /\ History
    \/ \E query \in Queries : ask(query) /\ History
    \/ \E doc \in Documents : ingest_pdf(doc) /\ History
    \/ \E memory_id \in 1..MaxId : forget(memory_id) /\ History
    \/ \E pdf_id \in 1..MaxDocs : forget_pdf(pdf_id) /\ History
    \/ \E enable \in BOOLEAN : toggle_tts(enable) /\ History

SpecHistory == Init /\ [][NextHistory]_vars

(***************************************************************************)
(* The interactive command loop (lines 162-202).                           *)
(***************************************************************************)
\* str.startswith(prefix)
startswith(s, prefix) ==
    Len(s) >= Len(prefix) /\ SubSeq(s, 1, Len(prefix)) = prefix

\* str.split() without a separator: the maximal runs of non-whitespace.
RECURSIVE words_from(_, _)
words_from(s, cur) ==
    IF s = <<>> THEN (IF cur # <<>> THEN <<cur>> ELSE <<>>)
    ELSE IF Head(s) \in Whitespace
         THEN (IF cur # <<>> THEN <<cur>> ELSE <<>>) \o words_from(Tail(s), <<>>)
    ELSE words_from(Tail(s), Append(cur, Head(s)))

split_whitespace(s) == words_from(s, <<>>)

\* str.split(maxsplit=1): the first word, and what follows the whitespace
\* after it when anything does.
split_maxsplit_1(s) ==
    LET t == lstrip(s)
        blanks == {i \in DOMAIN t : t[i] \in Whitespace}
    IN IF t = <<>> THEN <<>>
       ELSE IF blanks = {} THEN <<t>>
       ELSE LET k == CHOOSE i \in blanks : \A j \in blanks : i <= j
                rest == lstrip(SubSeq(t, k, Len(t)))
            IN IF rest = <<>> THEN <<SubSeq(t, 1, k - 1)>>
               ELSE <<SubSeq(t, 1, k - 1), rest>>

Digits == <<"0", "1", "2", "3", "4", "5", "6", "7", "8", "9">>

\* str.isdigit()
isdigit(s) == s # <<>> /\ \A i \in DOMAIN s : s[i] \in Range(Digits)

\* int(s) for a string of digits
RECURSIVE int(_)
int(s) ==
    IF s = <<>> THEN 0
    ELSE int(SubSeq(s, 1, Len(s) - 1)) * 10
         + (CHOOSE k \in DOMAIN Digits : Digits[k] = s[Len(s)]) - 1

\* the decimal numeral of n, as typed by the user
RECURSIVE str(_)
str(n) ==
    IF n < 10 THEN <<Digits[n + 1]>>
    ELSE str(n \div 10) \o <<Digits[(n % 10) + 1]>>

w_ingest_pdf == <<"i", "n", "g", "e", "s", "t", "_", "p", "d", "f">>
w_say == <<"s", "a", "y">>
w_ask == <<"a", "s", "k">>
w_list == <<"l", "i", "s", "t">>
w_list_pdfs == <<"l", "i", "s", "t", "_", "p", "d", "f", "s">>
w_forget == <<"f", "o", "r", "g", "e", "t">>
w_forget_pdf == <<"f", "o", "r", "g", "e", "t", "_", "p", "d", "f">>
w_tts_on == <<"t", "t", "s", "_", "o", "n">>
w_tts_off == <<"t", "t", "s", "_", "o", "f", "f">>
w_exit == <<"e", "x", "i", "t">>
w_help == <<"h", "e", "l", "p">>

\* The lines a user may type at the prompt.
CommandLines ==
    {w_say, w_ask, w_list, w_list_pdfs, w_tts_on, w_tts_off, w_exit, w_help,
     w_ingest_pdf, w_forget, <<" ">> \o w_say \o <<" ">>}
    \cup {w_ingest_pdf \o <<" ">> \o doc.path : doc \in Documents}
    \cup {w_forget \o <<" ">> \o str(n) : n \in 1..MaxId}
    \cup {w_forget_pdf \o <<" ">> \o str(n) : n \in 1..MaxDocs}

\* A line of the loop that only prints.
prints(op, value) ==
    /\ last' = [op |-> op, out |-> "return", value |-> value]
    /\ UNCHANGED <<memory, pdf_files, tts_enabled>>

\* One turn of the loop (lines 163-202) on the typed line.  An exception
\* leaving ask ends the program, as exit does.
main_loop(line) ==
    LET cmd == strip(line)
    IN
    /\ last.op # "exit"
    /\ ~(last.op = "ask" /\ last.out = "raise")
    /\ IF startswith(cmd, w_ingest_pdf) THEN
            LET parts == split_maxsplit_1(cmd)
            IN IF Len(parts) = 2
               THEN \E doc \in Documents : doc.path = parts[2] /\ ingest_pdf(doc)
               ELSE prints("usage", <<"Usage: ingest_pdf <path>">>)
       ELSE IF cmd = w_say THEN \E text \in SayTexts : say(text)
       ELSE IF cmd = w_ask THEN \E question \in Queries : ask(question)
       ELSE IF cmd = w_list THEN prints("list_memory", list_memory(memory))
       ELSE IF cmd = w_list_pdfs THEN prints("list_pdfs", list_pdfs(pdf_files))
       ELSE IF startswith(cmd, w_forget) THEN
            LET parts == split_whitespace(cmd)
            IN IF Len(parts) = 2 /\ isdigit(parts[2])
               THEN forget(int(parts[2]))
               ELSE prints("usage", <<"Usage: forget <memory_id>">>)
       ELSE IF startswith(cmd, w_forget_pdf) THEN
            LET parts == split_whitespace(cmd)
            IN IF Len(parts) = 2 /\ isdigit(parts[2])
               THEN forget_pdf(int(parts[2]))
               ELSE prints("usage", <<"Usage: forget_pdf <pdf_id>">>)
       ELSE IF cmd = w_tts_on THEN toggle_tts(TRUE)
       ELSE IF cmd = w_tts_off THEN toggle_tts(FALSE)
       ELSE IF cmd = w_exit THEN prints("exit", <<>>)
       ELSE prints("unknown", <<"Unknown command.">>)

\* The program as run from the prompt.
NextCommands ==
    \E line \in CommandLines : main_loop(line) /\ UNCHANGED <<issued, owned>>

SpecCommands == Init /\ [][NextCommands]_vars
(***************************************************************************)
(* Properties.                                                             *)
(***************************************************************************)
has_event(e) == \E i \in DOMAIN last.events : last.events[i] = e

\* ask(q) has just answered q from the search provider.
answered_online ==
    /\ last.op = "ask"
    /\ last.out = "return"
    /\ last.value # NOT_FOUND
    /\ has_event("search_online")

\* C1: when ask(q) missed locally and returned an answer taken from the
\* search provider, the ask(q) that follows it at once is answered by the
\* local lookup whatever the provider now does: it returns the same answer,
\* does not call the provider and inserts no memory.
C1_WriteBackIsRetrievable ==
    [][answered_online /\ ask(last.arg)
        => /\ last'.out = "return"
           /\ last'.value = last.value
           /\ last'.adapter = "unused"
           /\ memory' = memory]_vars

\* C2: no stored memory has content that is empty after trimming, and say
\* with such a text is rejected and stores nothing.
C2_NoEmptyContent ==
    /\ \A i \in DOMAIN memory : strip(memory[i].content) # <<>>
    /\ last.op = "say" /\ strip(last.arg) = <<>> => last.out = "raise"

\* C3: the id given to a newly inserted memory is greater than the id given
\* by every earlier insert, deleted or not.
C3_IdsNeverReused ==
    [][\A i \in ids_of(memory') \ ids_of(memory) : i > issued]_vars

\* C4: forget_pdf(d), for a document record d whose ingestion stored n
\* chunks none of which was forgotten since, removes exactly n memory rows
\* and exactly one document row.
C4_ForgetPdfRemovesExactlyN ==
    [][\A d \in ids_of(pdf_files) :
        forget_pdf(d) /\ Cardinality(owned[d].ids) = owned[d].n
            => /\ Len(memory') = Len(memory) - owned[d].n
               /\ Len(pdf_files') = Len(pdf_files) - 1]_vars
filename_of(d) == (CHOOSE r \in Range(pdf_files) : r.id = d).filename

is_pdf_source(source) ==
    /\ Len(source) >= Len(PDF_PREFIX)
    /\ SubSeq(source, 1, Len(PDF_PREFIX)) = PDF_PREFIX

\* C5: when forget_pdf(d) finds record d, with filename f, then afterwards
\* no memory has source "pdf:" + f and record d is gone, while the memories
\* of every other source and the other document records are as they were.
C5_DeletionCascade ==
    [][\A d \in ids_of(pdf_files) :
        forget_pdf(d) =>
            LET src == PDF_PREFIX \o filename_of(d)
            IN /\ \A i \in DOMAIN memory' : memory'[i].source # src
               /\ \A r \in Range(pdf_files') : r.id # d
               /\ Range(memory') = {m \in Range(memory) : m.source # src}
               /\ Range(pdf_files') = {r \in Range(pdf_files) : r.id # d}
               /\ Len(memory') = Cardinality(Range(memory'))
               /\ Len(pdf_files') = Len(pdf_files) - 1]_vars

\* forget_pdf has just removed a document while the memories of another
\* document and another document record stay behind.
C5_Witness ==
    /\ last.op = "forget_pdf"
    /\ last.value[1] = "Forgot PDF"
    /\ \E i \in DOMAIN memory :
            /\ is_pdf_source(memory[i].source)
            /\ memory[i].source # PDF_PREFIX \o last.value[2]
    /\ pdf_files # <<>>

\* C6: forget_pdf(d) for an id d of no current document record does not
\* raise: it returns the not-found result and changes neither table.
C6_ForgetPdfUnknownId ==
    [][\A d \in 1..MaxDocs :
        forget_pdf(d) /\ d \notin ids_of(pdf_files)
            => /\ last'.out = "return"
               /\ last'.value = <<"No PDF found with ID", d>>
               /\ memory' = memory
               /\ pdf_files' = pdf_files]_vars

\* forget_pdf has just reported an unknown id while both tables hold rows.
C6_Witness ==
    /\ last.op = "forget_pdf"
    /\ last.value[1] = "No PDF found with ID"
    /\ last.arg \notin ids_of(pdf_files)
    /\ memory # <<>>
    /\ pdf_files # <<>>

\* C7: ask never raises, whatever the store, the query and the provider's
\* outcome, and a provider failure ends in the not-found sentinel as an
\* empty result does.
C7_AskIsTotal ==
    last.op = "ask" =>
        /\ last.out = "return"
        /\ last.adapter = "raised" => last.value = NOT_FOUND

\* C8: when ask has an answer and the speech engine is called and fails,
\* ask still returns the answer, and the write-back of an online answer is
\* in the store.
C8_SinkFailureIsSwallowed ==
    last.op = "ask" /\ has_event("engine.say") =>
        /\ last.out = "return"
        /\ has_event("_save_memory") =>
                /\ memory # <<>>
                /\ memory[Len(memory)].source = ONLINE
                /\ memory[Len(memory)].content = last.value

\* C9: when the local lookup misses and the provider gives a non-empty text
\* t, ask returns t and the store then holds exactly one more memory, with
\* source "online" and content t; the earlier memories and the document
\* records are unchanged.
C9_OnlineSuccessWritesBackOnce ==
    [][\A q \in Queries, o \in AdapterOutcomes, sf \in BOOLEAN :
        /\ _search_local_memory(memory, q) = None
        /\ truthy(search_online(o))
        /\ ask_from(q, None, o, sf)
        => /\ last'.out = "return"
           /\ last'.value = search_online(o)
           /\ Len(memory') = Len(memory) + 1
           /\ SubSeq(memory', 1, Len(memory)) = memory
           /\ memory'[Len(memory')].source = ONLINE
           /\ memory'[Len(memory')].content = search_online(o)
           /\ pdf_files' = pdf_files]_vars

positions(events, e) == {i \in DOMAIN events : events[i] = e}

\* C10: within one ask the provider is called at most once and only after
\* the local lookup ended in a miss, and when a stored memory clears the
\* threshold ask returns that memory without calling the provider.
C10_LocalFirst ==
    [][\A q \in Queries :
        ask(q) =>
            LET local == _search_local_memory(memory, q)
                called == positions(last'.events, "search_online")
            IN /\ Cardinality(called) <= 1
               /\ called # {} =>
                    /\ local = None
                    /\ \A i \in called :
                         \E j \in positions(last'.events, "_search_local_memory") : j < i
               /\ truthy(local) /\ local # ValueError =>
                    /\ last'.out = "return"
                    /\ last'.value = local
                    /\ called = {}]_vars

\* C11: ask changes the store only on online success: in a step of ask(q),
\* known by the record of the call, when ask returns the not-found sentinel
\* both tables are what they were before the call and the speech output is
\* not invoked, and when a table differs the local lookup had not found a
\* memory above the threshold.
C11_AskFrame ==
    [][\A q \in Queries :
        last'.op = "ask" /\ last'.arg = q =>
            LET not_found == last'.out = "return" /\ last'.value = NOT_FOUND
                unchanged == memory' = memory /\ pdf_files' = pdf_files
            IN /\ not_found => unchanged
               /\ unchanged \/ \A local \in {_search_local_memory(memory, q)} :
                                    ~(truthy(local) /\ local # ValueError)
               /\ not_found =>
                    /\ positions(last'.events, "_speak") = {}
                    /\ positions(last'.events, "engine.say") = {}]_vars

\* ask has just returned the sentinel with speech output on and rows in
\* both tables.
C11_Witness ==
    /\ last.op = "ask"
    /\ last.out = "return"
    /\ last.value = NOT_FOUND
    /\ tts_enabled
    /\ memory # <<>>
    /\ pdf_files # <<>>

\* C12: for every query, the local lookup on a non-empty store returns the
\* memory of maximum similarity, the earliest among equals, exactly when
\* that similarity is strictly above 0.2, and no match otherwise; on the
\* empty store it returns no match.
C12_RankerSelection ==
    \A q \in Queries :
        \A local \in {_search_local_memory(memory, q)} :
            IF memory = <<>> THEN local = None
            ELSE \A sims \in {cosine_sim(Append(_load_all_memory(memory), q))} :
                    LET best == CHOOSE i \in DOMAIN sims :
                                    /\ \A j \in DOMAIN sims : sims[j] <= sims[i]
                                    /\ \A j \in 1..(i - 1) : sims[j] < sims[i]
                    IN local = IF sims[best] > Threshold
                               THEN memory[best].content
                               ELSE None

\* The text of all pages, one page after the other, each closed by a line
\* break; a page without text contributes nothing.
RECURSIVE all_text(_)
all_text(pages) ==
    IF pages = <<>> THEN <<>>
    ELSE (IF Head(pages) = None THEN <<>> ELSE Head(pages)) \o <<"\n">>
         \o all_text(Tail(pages))

\* The non-empty trimmed lines of a document, in page and line order.
trimmed_lines(pages) ==
    LET pieces == split(all_text(pages), "\n")
    IN SelectSeq([i \in DOMAIN pieces |-> strip(pieces[i])], LAMBDA l : l # <<>>)

extraction_succeeds(doc) ==
    doc.exists /\ \A i \in DOMAIN doc.pages : doc.pages[i] # Error

\* C13: a successful ingest_pdf of an existing document appends one memory
\* per non-empty trimmed line, in page and line order, each with source
\* "pdf:" + file name and the trimmed line as content, appends exactly one
\* document record for the file name, and reports the number of memories it
\* stored; a document without such a line stores none and is registered
\* all the same.
C13_IngestionResult ==
    [][\A doc \in Documents :
        /\ last'.op = "ingest_pdf"
        /\ last'.arg = doc
        /\ ingest_pdf(doc)
        /\ extraction_succeeds(doc)
        => LET lines == trimmed_lines(doc.pages)
               n == Len(lines)
           IN /\ Len(memory') = Len(memory) + n
              /\ SubSeq(memory', 1, Len(memory)) = memory
              /\ \A k \in 1..n :
                    /\ memory'[Len(memory) + k].source = PDF_PREFIX \o basename(doc.path)
                    /\ memory'[Len(memory) + k].content = lines[k]
              /\ Len(pdf_files') = Len(pdf_files) + 1
              /\ SubSeq(pdf_files', 1, Len(pdf_files)) = pdf_files
              /\ pdf_files'[Len(pdf_files')].filename = basename(doc.path)
              /\ last'.out = "return"
              /\ last'.value = <<"Ingested", n>>]_vars

\* ingest_pdf has just stored the two lines of a page that holds a blank
\* line and untrimmed text, followed by an empty page.
C13_Witness ==
    /\ last.op = "ingest_pdf"
    /\ last.arg.pages = <<page_cat_dog, s_empty>>
    /\ last.value = <<"Ingested", 2>>
    /\ Len(memory) = 2
    /\ memory[1].content = page_cat
    /\ memory[2].content = s_Dog
    /\ Len(pdf_files) = 1

\* C14: forget(i) does not raise and removes the memory with id i and
\* nothing else: the other memories keep their order and the document
\* records are unchanged; when no memory has id i the store is unchanged,
\* and so it is when forget(i) follows forget(i).
C14_ForgetIdempotent ==
    [][\A i \in 1..MaxId :
        last'.op = "forget" /\ last'.arg = i /\ forget(i) =>
            LET kept == {k \in DOMAIN memory : memory[k].id # i}
            IN /\ last'.out = "return"
               /\ Len(memory') = Cardinality(kept)
               /\ \A k \in kept :
                    memory'[Cardinality({j \in kept : j <= k})] = memory[k]
               /\ pdf_files' = pdf_files
               /\ i \notin ids_of(memory) => memory' = memory
               /\ last.op = "forget" /\ last.arg = i => memory' = memory]_vars

\* forget has just removed the first of two memories, with a document
\* record in the other table.
C14_Witness ==
    /\ last.op = "forget"
    /\ last.arg = 1
    /\ Len(memory) = 1
    /\ memory[1].id = 2
    /\ pdf_files # <<>>

\* C15: list_memory returns all current memories in the order of their
\* insertion, which is strictly ascending id order, whatever deletions and
\* inserts came before.
C15_ListInInsertionOrder ==
    \A rows \in {list_memory(memory)} :
        /\ Len(rows) = Len(memory)
        /\ \A i \in DOMAIN memory :
                rows[i] = <<memory[i].id, memory[i].source, memory[i].content>>
        /\ \A i \in 1..(Len(rows) - 1) : rows[i][1] < rows[i + 1][1]

\* Two memories are listed of which the second was inserted after the
\* memory with id 1 was deleted.
C15_Witness ==
    /\ Len(memory) = 2
    /\ memory[1].id = 2
    /\ list_memory(memory)[2][1] = 3
    /\ last.op \in {"say", "ask", "ingest_pdf"}

\* C17: ingest_pdf of a path that does not exist, or of a document one of
\* whose pages fails to extract, returns an error result without raising
\* and inserts neither a memory nor a document record.
C17_FailedIngestion ==
    [][\A doc \in Documents :
        /\ last'.op = "ingest_pdf"
        /\ last'.arg = doc
        /\ ingest_pdf(doc)
        /\ ~extraction_succeeds(doc)
        => /\ last'.out = "return"
           /\ last'.value = IF doc.exists THEN <<"Error reading PDF">>
                                          ELSE <<"PDF file not found.">>
           /\ memory' = memory
           /\ pdf_files' = pdf_files]_vars

\* ingest_pdf has just reported an extraction failure on the second page
\* of a document whose first page was extracted, with rows in both tables.
C17_Witness ==
    /\ last.op = "ingest_pdf"
    /\ last.value = <<"Error reading PDF">>
    /\ last.arg.pages = <<page_cat, Error>>
    /\ memory # <<>>
    /\ pdf_files # <<>>

\* C18: every memory whose source is "pdf:" + f has a document record with
\* filename f.
C18_DocumentOwnership ==
    \A i \in DOMAIN memory :
        is_pdf_source(memory[i].source) =>
            \E r \in Range(pdf_files) : memory[i].source = PDF_PREFIX \o r.filename

\* forget_pdf has just removed one document and a memory of the document
\* recorded under id 2 is still stored.
C18_Witness ==
    /\ last.op = "forget_pdf"
    /\ last.value[1] = "Forgot PDF"
    /\ last.arg = 1
    /\ Len(pdf_files) = 1
    /\ pdf_files[1].id = 2
    /\ \E i \in DOMAIN memory :
            memory[i].source = PDF_PREFIX \o pdf_files[1].filename

\* C19: when ask returns a value other than the not-found sentinel, that
\* value is the content of a memory in the store at that moment.
C19_AnswerProvenance ==
    last.op = "ask" /\ last.out = "return" /\ last.value # NOT_FOUND =>
        \E i \in DOMAIN memory : memory[i].content = last.value

\* ask has just returned a stored memory found by the local lookup, the
\* provider not having been called.
C19_Witness ==
    /\ last.op = "ask"
    /\ last.out = "return"
    /\ last.value # NOT_FOUND
    /\ last.adapter = "unused"
    /\ Len(memory) = 2

\* C16: at the prompt, the line "forget_pdf <n>" makes the step forget_pdf(n)
\* makes, and the line "forget <n>" makes the step forget(n) makes.
C16_CommandDispatch ==
    [][/\ \A n \in 1..MaxDocs :
            main_loop(w_forget_pdf \o <<" ">> \o str(n)) => forget_pdf(n)
       /\ \A n \in 1..MaxId :
            main_loop(w_forget \o <<" ">> \o str(n)) => forget(n)]_vars
====
